---- MODULE Spec2Model ----
(***************************************************************************)
(* Model of the JavaScriptPropTypes renderer of quicktype                  *)
(* (src/quicktype-core/language/JavaScriptPropTypes.ts): the validator     *)
(* synthesizer typeMapTypeFor / typeMapTypeForProperty, and the emission   *)
(* pass emitSourceStructure -> emitUsageComments, emitImports, emitTypes   *)
(* (placeholders, enums, gathered object bodies, the ordering loop, the    *)
(* ordered bodies, the top-level bindings).                                *)
(***************************************************************************)
EXTENDS Integers, Sequences, FiniteSets, TLC

\* ------------------------------------------------------------------ bounds
NumObjects == 3      \* named object types handed out by forEachObject
MaxProps == 2        \* class properties in the whole graph
MaxEnums == 1        \* enum types handed out by forEachEnum
NumCases == 2        \* cases of every enum
MaxTopLevels == 1    \* top-level (root) types
MaxDepth == 2        \* nesting depth of the types given to the synthesizer

VARIABLES
    classProps,      \* the graph's class properties: seq of [owner, p]
    enumCount,       \* number of enum types in the graph
    topLevels,       \* the roots: seq of types
    leadingComments, \* this.leadingComments !== undefined
    pc,              \* position of the pass
    i,               \* index of the running forEach
    emitted,         \* the emit context: every token emitted so far
    mapKey,          \* emitTypes: const mapKey: Name[]
    mapValue,        \* emitTypes: const mapValue: Sourcelike[][]
    order,           \* emitTypes: const order: number[]
    property,        \* the ClassProperty handed to typeMapTypeForProperty
    typeMap          \* what typeMapTypeForProperty returned

vars == <<classProps, enumCount, topLevels, leadingComments, pc, i, emitted,
          mapKey, mapValue, order, property, typeMap>>

\* ------------------------------------------------------------------- types
\* Type: a node of the type graph, by kind. Class and enum types carry the
\* index of the named type, array/map/union types their children.
PrimitiveKinds == {"any", "null", "bool", "integer", "double", "string", "date-time"}

Prim(k) == [kind |-> k, id |-> 0, items |-> <<>>]
ClassT(j) == [kind |-> "class", id |-> j, items |-> <<>>]
EnumT(e) == [kind |-> "enum", id |-> e, items |-> <<>>]
ArrayT(t) == [kind |-> "array", id |-> 0, items |-> <<t>>]
MapT(t) == [kind |-> "map", id |-> 0, items |-> <<t>>]
UnionT(t, u) == [kind |-> "union", id |-> 0, items |-> <<t, u>>]
\* a kind matchType has no case for
IntersectionT == [kind |-> "intersection", id |-> 0, items |-> <<>>]

\* type instanceof PrimitiveType
IsPrimitiveType(t) == t.kind \in PrimitiveKinds

\* ------------------------------------------------------------------- names
\* Name: the Namer hands one Name to every named type, and one to every
\* top level that does not share the name of a named type.
MkName(ns, id) == [ns |-> ns, id |-> id]

nameForNamedType(t) == MkName(t.kind, t.id)

\* --------------------------------------------------------------- sourcelike
\* Sourcelike: a text, a Name, or an array of Sourcelikes.
Text(s) == [kind |-> "text", text |-> s]
NameTok(nm) == [kind |-> "name", named |-> nm]
Arr(items) == [kind |-> "array", items |-> items]
Newline == [kind |-> "newline"]

RECURSIVE Flatten(_)
Flatten(s) ==
    IF s.kind = "array"
    THEN LET RECURSIVE cat(_)
             cat(k) == IF k > Len(s.items) THEN <<>>
                       ELSE Flatten(s.items[k]) \o cat(k + 1)
         IN cat(1)
    ELSE <<s>>

\* emitLine(...parts): the tokens of the parts, then the end of the line
Line(parts) == Flatten(Arr(parts)) \o <<Newline>>

\* arrayIntercalate(separator, children)
arrayIntercalate(sep, children) ==
    [k \in 1..(IF Len(children) = 0 THEN 0 ELSE 2 * Len(children) - 1) |->
        IF k % 2 = 1 THEN children[(k + 1) \div 2] ELSE sep]

\* ------------------------------------------------------------ synthesizer
\* the same callbacks with a map handed to a combinator over its values
matchLeafObjectOf(kind) ==
    CASE kind \in {"any", "null"} -> "PropTypes.any"
      [] kind = "bool" -> "PropTypes.bool"
      [] kind \in {"integer", "double"} -> "PropTypes.number"
      [] kind = "string" -> "PropTypes.string"
      [] kind = "map" -> "PropTypes.objectOf"
      [] OTHER -> "PropTypes.string"

\* matchType's callbacks that do not recurse (lines 122-127, 130, 138-140):
\* the validator of a kind that has no children to synthesize. A map's
\* values are never looked at.
matchLeaf(kind) ==
    CASE kind \in {"any", "null"} -> "PropTypes.any"
      [] kind = "bool" -> "PropTypes.bool"
      [] kind \in {"integer", "double"} -> "PropTypes.number"
      [] kind = "string" -> "PropTypes.string"
      [] kind = "map" -> "PropTypes.object"
      [] OTHER -> "PropTypes.string"   \* the transformed string types

\* The kinds matchType dispatches on; any other kind is a fatal failure.
matchTypeHandles(kind) ==
    kind \in PrimitiveKinds \cup {"array", "class", "map", "enum", "union"}

\* typeMapTypeFor throws: t is not a named type and matchType, on t or on
\* an array item or union member it recurses into, has no case for the kind.
RECURSIVE typeMapPanics(_)
typeMapPanics(t) ==
    IF t.kind \in {"class", "object", "enum"} THEN FALSE
    ELSE IF ~matchTypeHandles(t.kind) THEN TRUE
    ELSE IF t.kind \in {"array", "union"}
         THEN \E k \in 1..Len(t.items) : typeMapPanics(t.items[k])
    ELSE FALSE

\* typeMapTypeFor(t, required = true), for a t it does not throw on
RECURSIVE typeMapTypeFor(_, _)
typeMapTypeFor(t, required) ==
    IF t.kind \in {"class", "object", "enum"}
    THEN Arr(<<Text("_"), NameTok(nameForNamedType(t))>>)
    ELSE LET match ==
               CASE t.kind = "array" ->
                      Arr(<<Text("PropTypes.arrayOf("),
                            typeMapTypeFor(t.items[1], FALSE),
                            Text(")")>>)
                 [] t.kind = "union" ->
                      LET children == [k \in 1..Len(t.items) |->
                                          typeMapTypeFor(t.items[k], FALSE)]
                      IN Arr(<<Text("PropTypes.oneOfType([")>>
                             \o arrayIntercalate(Text(", "), children)
                             \o <<Text("])")>>)
                 [] OTHER -> Text(matchLeaf(t.kind))
         IN IF required THEN Arr(<<match>>) ELSE match

\* ClassProperty: [type, isOptional]
\* typeMapTypeForProperty(p), for a p.type typeMapTypeFor does not throw on
typeMapTypeForProperty(p) ==
    LET tm == typeMapTypeFor(p.type, TRUE)
    IN IF ~p.isOptional THEN tm ELSE Arr(<<Text("PropType.any")>>)

\* typeMapTypeForProperty throws: it calls typeMapTypeFor(p.type) first,
\* whatever p.isOptional is
propertyPanics(p) == typeMapPanics(p.type)

\* ------------------------------------------------------------- type graph
\* forEachObject: the object types, in traversal order, with their names
ObjectIndices == 0..(NumObjects - 1)

objectName(j) == nameForNamedType(ClassT(j))

enumName(e) == nameForNamedType(EnumT(e))

\* forEachClassProperty(t, ...): the properties of object type j, in order
classProperties(j) ==
    LET RECURSIVE sel(_)
        sel(k) == IF k > Len(classProps) THEN <<>>
                  ELSE IF classProps[k].owner = j
                       THEN <<classProps[k].p>> \o sel(k + 1)
                       ELSE sel(k + 1)
    IN sel(1)

\* directlyReachableSingleNamedType(type): the named type a top level
\* reaches without passing through another named type, if any
RECURSIVE directlyReachableSingleNamedType(_)
directlyReachableSingleNamedType(t) ==
    IF t.kind \in {"class", "enum", "union"} THEN <<t>>
    ELSE IF t.kind \in {"array", "map"} THEN directlyReachableSingleNamedType(t.items[1])
    ELSE <<>>

\* namedTypeToNameForTopLevel(type)
namedTypeToNameForTopLevel(t) == directlyReachableSingleNamedType(t)

\* The Name forEachTopLevel hands out for root r: the name of the object or
\* enum type namedTypeToNameForTopLevel reaches, else a name of its own.
topLevelName(r) ==
    LET named == namedTypeToNameForTopLevel(topLevels[r + 1])
    IN IF named # <<>> /\ named[1].kind \in {"class", "enum"}
       THEN nameForNamedType(named[1])
       ELSE MkName("top", r)

\* ---------------------------------------------------------------- emitters
\* What the emitters hand to the emit context, as tokens. Blank lines and
\* indentation (ensureBlankLine, indent) are left to the context.
\* emitUsageComments / emitCommentLines(this.leadingComments)
usageComments ==
    IF leadingComments THEN Line(<<Text("// "), Text("leadingComments")>>)
    ELSE Line(<<Text("// For use with proptypes.")>>)

\* an emitImports that emits nothing
importLineMissing == <<>>

\* emitImports
importLine == Line(<<Text("import PropTypes from \"prop-types\";")>>)

\* emitTypes, lines 176-178: one placeholder
placeholderLine(name) == Line(<<Text("let _"), NameTok(name), Text(";")>>)

\* emitTypes, lines 180-191: one enum
enumLine(e) ==
    LET RECURSIVE push(_)
        push(c) == IF c >= NumCases THEN <<>>
                   ELSE <<Text("'"), NameTok(MkName("case", c)), Text("'"), Text(", ")>>
                        \o push(c + 1)
        pushed == push(0)
        options == IF pushed = <<>> THEN <<>> ELSE SubSeq(pushed, 1, Len(pushed) - 1)
    IN Line(<<Arr(<<Text("const _"), NameTok(enumName(e)),
                    Text(" = PropTypes.oneOfType([")>>
                  \o options \o <<Text("]);")>>)>>)

\* emitObject(name, t) for object type j, as gatherSource collects it
emitObject(name, j) ==
    LET props == classProperties(j)
        RECURSIVE lines(_)
        lines(k) == IF k > Len(props) THEN <<>>
                    ELSE Line(<<Text("\"jsonName\""), Text(": "),
                                typeMapTypeForProperty(props[k]), Text(",")>>)
                         \o lines(k + 1)
    IN Line(<<Text("_"), NameTok(name), Text(" = PropTypes.shape({")>>)
       \o lines(1)
       \o Line(<<Text("});")>>)

\* emitObject throws on object type j
emitObjectPanics(j) ==
    \E k \in 1..Len(classProps) :
        classProps[k].owner = j /\ propertyPanics(classProps[k].p)

\* emitTypes, lines 232-251: the binding of one top level
topLevelLine(type, name) ==
    IF IsPrimitiveType(type)
    THEN Line(<<Text("export const "), NameTok(name), Text(" = "),
                typeMapTypeFor(type, TRUE), Text(";")>>)
    ELSE IF type.kind = "array"
    THEN Line(<<Text("export const "), NameTok(name), Text(" = PropTypes.arrayOf("),
                typeMapTypeFor(type.items[1], TRUE), Text(");")>>)
    ELSE Line(<<Text("export const "), NameTok(name), Text(" = _"),
                NameTok(name), Text(";")>>)

\* the callback throws on this top level
topLevelPanics(type) ==
    IF IsPrimitiveType(type) THEN typeMapPanics(type)
    ELSE IF type.kind = "array" THEN typeMapPanics(type.items[1])
    ELSE FALSE

\* ----------------------------------------------------------------- orderer
\* source.filter((value) => value as Name): the cast does nothing, the
\* filter keeps every truthy token
filterNames(source) ==
    LET RECURSIVE keep(_)
        keep(k) == IF k > Len(source) THEN <<>>
                   ELSE IF source[k].kind = "text" /\ source[k].text = ""
                        THEN keep(k + 1)
                        ELSE <<source[k]>> \o keep(k + 1)
    IN keep(1)

\* mapKey[depIndex] === depName
sameName(key, depName) == depName.kind = "name" /\ depName.named = key

SetMax(S) == CHOOSE m \in S : \A x \in S : x <= m

\* emitTypes, lines 204-222, searching every key instead of the ones
\* already in order
ordinalForAnyKey(source, ord, keys) ==
    LET names == filterNames(source)
    IN SetMax({0} \cup {d + 1 : d \in {d \in 0..(Len(keys) - 1) :
                   \E a \in 1..Len(names) : sameName(keys[d + 1], names[a])}})

\* emitTypes, lines 204-222: the ordinal the loops leave behind
ordinalFor(source, ord, keys) ==
    LET names == filterNames(source)
    IN SetMax({0} \cup {ord[j] + 1 : j \in {j \in 1..Len(ord) :
                   \E a \in 1..Len(names) : sameName(keys[ord[j] + 1], names[a])}})

\* order.splice(ordinal, 1, index): overwrites instead of inserting
spliceReplace(ord, ordinal, index) ==
    LET at == IF ordinal > Len(ord) THEN Len(ord) ELSE ordinal
    IN SubSeq(ord, 1, at) \o <<index>> \o SubSeq(ord, at + 2, Len(ord))

\* order.splice(ordinal, 0, index)
splice(ord, ordinal, index) ==
    LET at == IF ordinal > Len(ord) THEN Len(ord) ELSE ordinal
    IN SubSeq(ord, 1, at) \o <<index>> \o SubSeq(ord, at + 1, Len(ord))

\* ------------------------------------------------------------ control flow
\* emitSourceStructure, then emitTypes: the statements in program order
Phases == <<"comments", "imports", "placeholders", "enums", "gather", "order",
            "emit", "topLevels", "done">>

\* how many times the statement's loop body runs
Count(phase) ==
    CASE phase \in {"comments", "imports"} -> 1
      [] phase \in {"placeholders", "gather"} -> NumObjects
      [] phase = "order" -> Len(mapKey)
      [] phase = "emit" -> Len(order)
      [] phase = "enums" -> enumCount
      [] phase = "topLevels" -> Len(topLevels)
      [] OTHER -> 1

PhaseIndex(phase) == CHOOSE k \in 1..Len(Phases) : Phases[k] = phase

\* the first statement from Phases[k] on that has something to do
RECURSIVE firstToRun(_)
firstToRun(k) ==
    IF k >= Len(Phases) THEN "done"
    ELSE IF Count(Phases[k]) > 0 THEN Phases[k]
    ELSE firstToRun(k + 1)

\* a loop that is never left once its last element is done
advanceStuck(phase, idx) ==
    IF idx + 1 < Count(phase) \/ phase = "order"
    THEN [pc |-> phase, i |-> idx + 1]
    ELSE [pc |-> firstToRun(PhaseIndex(phase) + 1), i |-> 0]

\* after iteration idx of the statement: the next iteration, or the next
\* statement
advance(phase, idx) ==
    IF idx + 1 < Count(phase)
    THEN [pc |-> phase, i |-> idx + 1]
    ELSE [pc |-> firstToRun(PhaseIndex(phase) + 1), i |-> 0]

\* ------------------------------------------------------------------ inputs
SeqsUpTo(S, n) == UNION {[1..k -> S] : k \in 0..n}

\* the properties an object type is given: required ones of an object type,
\* of an enum type, of an array of objects, and of a kind the synthesizer
\* has no validator for; optional ones of an object type and of that kind
Properties(ne) ==
    [type : {ClassT(j) : j \in ObjectIndices} \cup {EnumT(e) : e \in 0..(ne - 1)}
            \cup {ArrayT(ClassT(0)), IntersectionT},
     isOptional : {FALSE}]
    \cup [type : {ClassT(0), IntersectionT}, isOptional : {TRUE}]

\* required properties of object types only, and of the unsupported kind
ReferenceProperties ==
    [type : {ClassT(j) : j \in ObjectIndices} \cup {IntersectionT}, isOptional : {FALSE}]

\* the class properties of a graph, grouped by owner in traversal order
ClassProps(choices) ==
    {ps \in SeqsUpTo([owner : ObjectIndices, p : choices], MaxProps) :
        \A k \in 1..(Len(ps) - 1) : ps[k].owner <= ps[k + 1].owner}

RootTypes(ne) ==
    {Prim("string"), ArrayT(ClassT(0)), ArrayT(IntersectionT),
     ClassT(0), MapT(Prim("string")), UnionT(Prim("string"), Prim("integer"))}
    \cup {EnumT(e) : e \in 0..(ne - 1)}

\* The graphs the pass is run on: every choice of class properties under
\* one object root, and every choice of roots over objects without
\* properties.
Graphs(choices) ==
    UNION {[classProps : ClassProps(choices[ne]), enumCount : {ne},
            topLevels : {<<ClassT(0)>>}, leadingComments : {FALSE}]
           \cup [classProps : {<<>>}, enumCount : {ne},
                 topLevels : SeqsUpTo(RootTypes(ne), MaxTopLevels),
                 leadingComments : BOOLEAN] : ne \in 0..MaxEnums}

NoProperty == [type |-> Prim("any"), isOptional |-> FALSE]

NoSource == Arr(<<>>)

\* the state the renderer is constructed in
Init ==
    /\ \E g \in Graphs([ne \in 0..MaxEnums |-> Properties(ne)]) :
          /\ classProps = g.classProps
          /\ enumCount = g.enumCount
          /\ topLevels = g.topLevels
          /\ leadingComments = g.leadingComments
    /\ pc = "comments"
    /\ i = 0
    /\ emitted = <<>>
    /\ mapKey = <<>>
    /\ mapValue = <<>>
    /\ order = <<>>
    /\ property = NoProperty
    /\ typeMap = NoSource

graph == <<classProps, enumCount, topLevels, leadingComments>>

synth == <<property, typeMap>>

\* ------------------------------------------------------------------ actions
Goto(next) == pc' = next.pc /\ i' = next.i

\* emitSourceStructure, lines 266-270
EmitComments ==
    /\ pc = "comments"
    /\ emitted' = emitted \o usageComments
    /\ Goto(advance(pc, i))
    /\ UNCHANGED <<graph, synth, mapKey, mapValue, order>>

\* emitImports
EmitImports ==
    /\ pc = "imports"
    /\ emitted' = emitted \o importLine
    /\ Goto(advance(pc, i))
    /\ UNCHANGED <<graph, synth, mapKey, mapValue, order>>

\* emitTypes, lines 176-178: the callback of forEachObject
EmitPlaceholder ==
    /\ pc = "placeholders"
    /\ i < NumObjects
    /\ emitted' = emitted \o placeholderLine(objectName(i))
    /\ Goto(advance(pc, i))
    /\ UNCHANGED <<graph, synth, mapKey, mapValue, order>>

\* emitTypes, lines 180-191: the callback of forEachEnum
EmitEnum ==
    /\ pc = "enums"
    /\ i < enumCount
    /\ emitted' = emitted \o enumLine(i)
    /\ Goto(advance(pc, i))
    /\ UNCHANGED <<graph, synth, mapKey, mapValue, order>>

\* emitTypes, lines 196-199: the callback of forEachObject
GatherObject ==
    /\ pc = "gather"
    /\ i < NumObjects
    /\ ~emitObjectPanics(i)
    /\ mapKey' = Append(mapKey, objectName(i))
    /\ mapValue' = Append(mapValue, emitObject(objectName(i), i))
    /\ Goto(advance(pc, i))
    /\ UNCHANGED <<graph, synth, emitted, order>>

\* the same callback when emitObject throws: mapKey.push(name) has run
GatherObjectPanics ==
    /\ pc = "gather"
    /\ i < NumObjects
    /\ emitObjectPanics(i)
    /\ mapKey' = Append(mapKey, objectName(i))
    /\ pc' = "failed"
    /\ UNCHANGED <<graph, synth, emitted, mapValue, order, i>>

\* emitTypes, lines 202-226: the callback of mapKey.forEach
OrderStep ==
    /\ pc = "order"
    /\ i < Len(mapKey)
    /\ order' = splice(order, ordinalFor(mapValue[i + 1], order, mapKey), i)
    /\ Goto(advance(pc, i))
    /\ UNCHANGED <<graph, synth, emitted, mapKey, mapValue>>

\* emitTypes, line 229: the callback of order.forEach
EmitOrdered ==
    /\ pc = "emit"
    /\ i < Len(order)
    /\ emitted' = emitted \o mapValue[order[i + 1] + 1]
    /\ Goto(advance(pc, i))
    /\ UNCHANGED <<graph, synth, mapKey, mapValue, order>>

\* emitTypes, lines 232-251: the callback of forEachTopLevel
EmitTopLevel ==
    /\ pc = "topLevels"
    /\ i < Len(topLevels)
    /\ ~topLevelPanics(topLevels[i + 1])
    /\ emitted' = emitted \o topLevelLine(topLevels[i + 1], topLevelName(i))
    /\ Goto(advance(pc, i))
    /\ UNCHANGED <<graph, synth, mapKey, mapValue, order>>

\* the same callback when typeMapTypeFor throws
EmitTopLevelPanics ==
    /\ pc = "topLevels"
    /\ i < Len(topLevels)
    /\ topLevelPanics(topLevels[i + 1])
    /\ pc' = "failed"
    /\ UNCHANGED <<graph, synth, emitted, mapKey, mapValue, order, i>>

Next ==
    \/ EmitComments
    \/ EmitImports
    \/ EmitPlaceholder
    \/ EmitEnum
    \/ GatherObject
    \/ GatherObjectPanics
    \/ OrderStep
    \/ EmitOrdered
    \/ EmitTopLevel
    \/ EmitTopLevelPanics

Spec == Init /\ [][Next]_vars

\* graphs for the termination of the pass: references between the object
\* types in every direction (in a graph without enums), and every choice of
\* roots and enums
TerminationInit ==
    /\ \E g \in Graphs([ne \in 0..MaxEnums |-> ReferenceProperties]) :
          /\ g.classProps # <<>> => g.enumCount = 0
          /\ classProps = g.classProps
          /\ enumCount = g.enumCount
          /\ topLevels = g.topLevels
          /\ leadingComments = g.leadingComments
    /\ pc = "comments"
    /\ i = 0
    /\ emitted = <<>>
    /\ mapKey = <<>>
    /\ mapValue = <<>>
    /\ order = <<>>
    /\ property = NoProperty
    /\ typeMap = NoSource

\* the pass runs to its end: single-threaded, nothing to wait for
FairSpec == TerminationInit /\ [][Next]_vars /\ WF_vars(Next)

\* -------------------------------------------------- the synthesizer alone
\* the types of depth d: the kinds without children, and arrays, maps and
\* unions of the types one level down
SynthLeaves ==
    {Prim(k) : k \in PrimitiveKinds} \cup {ClassT(0), EnumT(0), IntersectionT}

RECURSIVE SynthTypes(_)
SynthTypes(d) ==
    IF d = 0 THEN SynthLeaves
    ELSE LET below == SynthTypes(d - 1)
         IN below \cup {ArrayT(t) : t \in below} \cup {MapT(t) : t \in below}
                  \cup {UnionT(t, u) : t \in below, u \in {Prim("null"), ClassT(0)}}

SynthInit ==
    /\ property \in [type : SynthTypes(MaxDepth), isOptional : BOOLEAN]
    /\ typeMap = NoSource
    /\ pc = "property"
    /\ classProps = <<>>
    /\ enumCount = 0
    /\ topLevels = <<>>
    /\ leadingComments = FALSE
    /\ i = 0
    /\ emitted = <<>>
    /\ mapKey = <<>>
    /\ mapValue = <<>>
    /\ order = <<>>

\* typeMapTypeForProperty(p) returns
TypeMapTypeForProperty ==
    /\ pc = "property"
    /\ ~propertyPanics(property)
    /\ typeMap' = typeMapTypeForProperty(property)
    /\ pc' = "returned"
    /\ UNCHANGED <<graph, property, i, emitted, mapKey, mapValue, order>>

\* typeMapTypeForProperty(p) throws
TypeMapTypeForPropertyPanics ==
    /\ pc = "property"
    /\ propertyPanics(property)
    /\ pc' = "failed"
    /\ UNCHANGED <<graph, synth, i, emitted, mapKey, mapValue, order>>

SynthNext == TypeMapTypeForProperty \/ TypeMapTypeForPropertyPanics

SynthSpec == SynthInit /\ [][SynthNext]_vars

\* =================================================================== claims
\* what the claims speak of

\* the body of object a names object b
References(a, b) ==
    \E k \in 1..Len(mapValue[a + 1]) :
        sameName(objectName(b), mapValue[a + 1][k])

\* a path of references leads from a to b
RECURSIVE ReachesWithin(_, _, _)
ReachesWithin(a, b, steps) ==
    /\ steps > 0
    /\ \/ References(a, b)
       \/ \E c \in ObjectIndices \ {a} :
              References(a, c) /\ ReachesWithin(c, b, steps - 1)

Reaches(a, b) == ReachesWithin(a, b, NumObjects)

Gathered == Len(mapValue) = NumObjects

OrderComplete == Len(order) = NumObjects

Position(x) == CHOOSE j \in 1..Len(order) : order[j] = x

HasCycle ==
    /\ Gathered
    /\ \E a, b \in ObjectIndices : a # b /\ References(a, b) /\ References(b, a)

\* the token at k is the first token of a line
StartsLine(k) == k = 1 \/ emitted[k - 1] = Newline

\* the tokens ts stand in emitted from position k on
StandsAt(k, ts) ==
    /\ k + Len(ts) - 1 <= Len(emitted)
    /\ \A d \in 1..Len(ts) : emitted[k + d - 1] = ts[d]

Occurrences(ts) == Cardinality({k \in 1..Len(emitted) : StartsLine(k) /\ StandsAt(k, ts)})

\* the Name at k is declared there: let _N; or const _N = ...
IsDeclaration(k) ==
    /\ k > 1
    /\ emitted[k].kind = "name"
    /\ emitted[k - 1] \in {Text("let _"), Text("const _")}

\* the Name at k is a use of the identifier _N
IsReference(k) ==
    /\ k > 1
    /\ emitted[k].kind = "name"
    /\ emitted[k - 1] \in {Text("_"), Text(" = _")}

\* the first token of the first object body, or past the end
FirstBody ==
    LET starts == {k \in 1..Len(emitted) :
                      /\ StartsLine(k)
                      /\ emitted[k] = Text("_")}
    IN IF starts = {} THEN Len(emitted) + 1
       ELSE CHOOSE k \in starts : \A m \in starts : k <= m

\* the lines of the top-level bindings emitted so far, in order
ExportStarts == {k \in 1..Len(emitted) : StartsLine(k) /\ emitted[k] = Text("export const ")}

ExportLine(r) ==
    LET k == CHOOSE k \in ExportStarts :
                 Cardinality({m \in ExportStarts : m < k}) = r
        end == CHOOSE e \in k..Len(emitted) :
                 emitted[e] = Newline /\ \A m \in k..(e - 1) : emitted[m] # Newline
    IN SubSeq(emitted, k, end)

\* C1: once every definition is inserted, a definition whose body references
\* another one, with no path of references back, stands after it in order.
TopologicalOrder ==
    OrderComplete =>
        \A a, b \in ObjectIndices :
            (a # b /\ References(a, b) /\ ~Reaches(b, a)) => Position(b) < Position(a)

\* C2: every use of an identifier _N in the emitted tokens, in an object body
\* or in a top-level binding, comes after a declaration of _N, and every
\* declaration comes before the first object body.
DeclaredBeforeReferenced ==
    /\ \A k \in 1..Len(emitted) :
          IsReference(k) =>
              \E d \in 1..(k - 1) : IsDeclaration(d) /\ emitted[d].named = emitted[k].named
    /\ \A d \in 1..Len(emitted) : IsDeclaration(d) => d < FirstBody

\* the number of definitions the ordering loop has processed
ProcessedCount ==
    CASE pc = "order" -> i
      [] pc \in {"emit", "topLevels", "done"} -> NumObjects
      [] pc = "failed" /\ Gathered -> NumObjects
      [] OTHER -> 0

\* C3: after the first k definitions are processed, order holds exactly the
\* indices 0..k-1, each once; at the end every body is emitted exactly once.
OrderIsPermutation ==
    /\ Len(order) = ProcessedCount
    /\ \A x \in 0..(ProcessedCount - 1) :
          Cardinality({j \in 1..Len(order) : order[j] = x}) = 1
    /\ pc = "done" =>
          \A j \in ObjectIndices :
              Occurrences(<<Text("_"), NameTok(objectName(j)),
                            Text(" = PropTypes.shape({")>>) = 1

\* C3: a pass over two objects that reference each other has ended
PermutationWithCycle == pc = "done" /\ HasCycle /\ OrderComplete

\* C4: a required property gets typeMapTypeFor of its type; an optional one
\* gets the validator typeMapTypeFor gives for the any and null types.
PropertyValidator ==
    pc = "returned" =>
        IF ~property.isOptional
        THEN typeMap = typeMapTypeFor(property.type, TRUE)
        ELSE /\ Flatten(typeMap) = Flatten(typeMapTypeFor(Prim("any"), TRUE))
             /\ Flatten(typeMap) = Flatten(typeMapTypeFor(Prim("null"), TRUE))

\* C5 as stated: a map-typed property, optional or not, gets PropTypes.object.
MapPropertyIsObject ==
    (pc = "returned" /\ property.type.kind = "map") =>
        Flatten(typeMap) = <<Text("PropTypes.object")>>

\* C5: a required map-typed property gets PropTypes.object whatever the
\* type of the map's values; an optional one gets the optional-property
\* expression PropType.any.
RequiredMapPropertyIsObject ==
    (pc = "returned" /\ property.type.kind = "map") =>
        IF property.isOptional
        THEN Flatten(typeMap) = <<Text("PropType.any")>>
        ELSE Flatten(typeMap) = <<Text("PropTypes.object")>>

\* C5: the validator of a required property that maps to objects, to arrays
\* or to values of the unsupported kind
RequiredMapOfObjects ==
    /\ pc = "returned"
    /\ property.type.kind = "map"
    /\ ~property.isOptional
    /\ property.type.items[1].kind \in {"class", "array", "intersection"}

\* C6: the binding of a root that is neither primitive nor array is the
\* alias _N when N is a declared object or enum name, and the inline
\* expression of the root when the root has no such name.
TopLevelAliasOrInline ==
    \A r \in 0..(Cardinality(ExportStarts) - 1) :
        LET type == topLevels[r + 1]
            name == topLevelName(r)
        IN (~IsPrimitiveType(type) /\ type.kind # "array") =>
              IF name.ns \in {"class", "enum"}
              THEN ExportLine(r) = <<Text("export const "), NameTok(name), Text(" = _"),
                                     NameTok(name), Text(";"), Newline>>
              ELSE ExportLine(r) = <<Text("export const "), NameTok(name), Text(" = ")>>
                                   \o Flatten(typeMapTypeFor(type, TRUE))
                                   \o <<Text(";"), Newline>>

\* C7: a pass over two objects that reference each other has emitted its
\* last top-level binding
TerminatedWithCycle == pc = "done" /\ HasCycle /\ Cardinality(ExportStarts) = Len(topLevels)

\* the emitted tokens hold the comment, the import, every placeholder, every
\* enum, every body and every top-level binding
OutputComplete ==
    /\ \/ Occurrences(<<Text("// For use with proptypes."), Newline>>) = 1
       \/ Occurrences(<<Text("// "), Text("leadingComments"), Newline>>) = 1
    /\ Occurrences(<<Text("import PropTypes from \"prop-types\";"), Newline>>) = 1
    /\ \A j \in ObjectIndices :
          /\ Occurrences(<<Text("let _"), NameTok(MkName("class", j)), Text(";"), Newline>>) = 1
          /\ Occurrences(<<Text("_"), NameTok(MkName("class", j)),
                           Text(" = PropTypes.shape({"), Newline>>) = 1
    /\ Occurrences(<<Text("});"), Newline>>) = NumObjects
    /\ \A e \in 0..(enumCount - 1) :
          Occurrences(<<Text("const _"), NameTok(MkName("enum", e)),
                        Text(" = PropTypes.oneOfType([")>>) = 1
    /\ Cardinality(ExportStarts) = Len(topLevels)

\* the comment, the import, every placeholder and every enum are emitted
HoistingComplete ==
    /\ \/ Occurrences(<<Text("// For use with proptypes."), Newline>>) = 1
       \/ Occurrences(<<Text("// "), Text("leadingComments"), Newline>>) = 1
    /\ Occurrences(<<Text("import PropTypes from \"prop-types\";"), Newline>>) = 1
    /\ \A j \in ObjectIndices :
          Occurrences(<<Text("let _"), NameTok(MkName("class", j)), Text(";"), Newline>>) = 1
    /\ \A e \in 0..(enumCount - 1) :
          Occurrences(<<Text("const _"), NameTok(MkName("enum", e)),
                        Text(" = PropTypes.oneOfType([")>>) = 1

\* no type of the graph that is synthesized is of the unsupported kind
GraphSupported ==
    /\ \A k \in 1..Len(classProps) : classProps[k].p.type # IntersectionT
    /\ \A r \in 1..Len(topLevels) : topLevels[r] # ArrayT(IntersectionT)

\* C7: the pass comes to an end, whatever the references between the
\* definitions: with every body and every top-level binding emitted, or, on
\* a graph with a type of the unsupported kind, failed.
Termination ==
    <>(\/ /\ pc = "done"
          /\ Occurrences(<<Text("});"), Newline>>) = NumObjects
          /\ Cardinality(ExportStarts) = Len(topLevels)
       \/ /\ pc = "failed"
          /\ ~GraphSupported)

\* C8 as stated: a run that fails has emitted nothing, a run that ends has
\* emitted everything.
NoPartialOutput ==
    /\ pc = "done" => OutputComplete
    /\ pc = "failed" => emitted = <<>>

\* C8: a run that ends has emitted everything; a run that fails has emitted
\* the comment, the import, every placeholder and every enum, and not every
\* top-level binding: either no body at all or every body.
CompleteOrFailedAfterHoisting ==
    /\ pc = "done" => OutputComplete
    /\ pc = "failed" =>
          /\ HoistingComplete
          /\ Cardinality(ExportStarts) < Len(topLevels) \/ Occurrences(<<Text("});"), Newline>>) = 0
          /\ Occurrences(<<Text("});"), Newline>>) \in {0, NumObjects}

\* C8: a failed pass with tokens emitted
FailedWithOutput == pc = "failed" /\ emitted # <<>> /\ ~OutputComplete

\* one past the position in order of the last dependency of definition i
\* that is in order, or 0
PositionOrdinal ==
    LET names == mapValue[i + 1]
    IN SetMax({0} \cup {j \in 1..Len(order) :
                  \E a \in 1..Len(names) : sameName(mapKey[order[j] + 1], names[a])})

\* C9: the definition processed is inserted one past the position in order
\* of the last of its dependencies already there, or at 0.
InsertedAfterLastDependency ==
    [][pc = "order" =>
          order' = SubSeq(order, 1, PositionOrdinal) \o <<i>>
                   \o SubSeq(order, PositionOrdinal + 1, Len(order))]_vars

\* the body of definition a without the names of a and of the definitions
\* processed after a
Stripped(a) ==
    LET body == mapValue[a + 1]
        RECURSIVE keep(_)
        keep(k) == IF k > Len(body) THEN <<>>
                   ELSE IF \E b \in a..(NumObjects - 1) :
                               body[k] = NameTok(MkName("class", b))
                        THEN keep(k + 1)
                        ELSE <<body[k]>> \o keep(k + 1)
    IN keep(1)

\* what the orderer makes of the first k stripped bodies
RECURSIVE OrderOfStripped(_)
OrderOfStripped(k) ==
    IF k = 0 THEN <<>>
    ELSE LET before == OrderOfStripped(k - 1)
         IN splice(before, ordinalFor(Stripped(k - 1), before, mapKey), k - 1)

\* C10: order is what the orderer makes of the bodies with every reference
\* to the definition itself and to a later-processed definition removed.
SelfAndForwardReferencesIgnored ==
    Gathered => order = OrderOfStripped(Len(order))

\* C10: a pass has ended over bodies that reference a later-processed and an
\* earlier-processed definition
ForwardReferenceOrdered ==
    /\ pc = "done"
    /\ \E a, b \in ObjectIndices : a < b /\ References(a, b)
    /\ \E a, b \in ObjectIndices : b < a /\ References(a, b)

====
